---- MODULE Spec2Model ----
(***************************************************************************)
(* A model of the expense tracker of src/expense_server.py: the expenses   *)
(* table, the four tools add_expense, get_expenses, get_expense_summary    *)
(* and delete_expense, the date validation done by datetime.strptime and   *)
(* the SQL statements the tools build.                                     *)
(*                                                                         *)
(* Text values that the code inspects character by character (dates) are   *)
(* sequences of one-character strings; categories are compared only for    *)
(* equality and emptiness and are plain strings.  The columns subcategory  *)
(* and note are stored and returned untouched by every statement and are   *)
(* left out of the rows.                                                   *)
(***************************************************************************)
EXTENDS Integers, Sequences, FiniteSets, TLC

VARIABLES
    rows,      \* the expenses table, in rowid order: [id, date, amount, category]
    seq,       \* sqlite_sequence.seq of the table: the largest rowid ever given
    call,      \* the tool call made last, with its arguments
    result,    \* what that call returned (status "raised": an exception left the tool)
    issued,    \* history: the ids successful add_expense calls have returned
    deleted,   \* history: the ids successful delete_expense calls have removed
    inflight   \* a get_expense_summary between its two SELECTs, or <<>>

vars == <<rows, seq, call, result, issued, deleted, inflight>>

----------------------------------------------------------------------------
(* Text: characters, their code points, and SQLite's BINARY collation.     *)

DigitChars == {"0", "1", "2", "3", "4", "5", "6", "7", "8", "9"}

DigitVal(c) ==
    CASE c = "0" -> 0 [] c = "1" -> 1 [] c = "2" -> 2 [] c = "3" -> 3
      [] c = "4" -> 4 [] c = "5" -> 5 [] c = "6" -> 6 [] c = "7" -> 7
      [] c = "8" -> 8 [] c = "9" -> 9

\* Unicode code point of the characters the inputs are written with.
CharCode(c) ==
    CASE c = " " -> 32 [] c = "-" -> 45 [] c = "/" -> 47
      [] c \in DigitChars -> 48 + DigitVal(c)

\* memcmp order of two TEXT values (the default BINARY collation): the
\* first position where they differ decides, and a prefix comes first.
TextLeq(a, b) ==
    LET n == IF Len(a) <= Len(b) THEN Len(a) ELSE Len(b)
        diff == {i \in 1..n : a[i] # b[i]} IN
    IF diff = {} THEN Len(a) <= Len(b)
    ELSE LET d == CHOOSE i \in diff : \A j \in diff : i <= j IN
         CharCode(a[d]) < CharCode(b[d])

----------------------------------------------------------------------------
(* datetime.strptime(date, "%Y-%m-%d").  The format compiles to the regex  *)
(*   (?P<Y>\d\d\d\d)-(?P<m>1[0-2]|0[1-9]|[1-9])-                           *)
(*   (?P<d>3[0-1]|[1-2]\d|0[1-9]|[1-9]| [1-9])                             *)
(* matched at the start of the string; text left after the match, a year   *)
(* of 0 and a day the month does not have raise ValueError.                *)

\* The character at position i, or "" past the end.
At(s, i) == IF i >= 1 /\ i <= Len(s) THEN s[i] ELSE ""

NonZeroDigits == DigitChars \ {"0"}

\* Length of the %m match at position p that lets the following "-" match
\* (the alternatives are tried in order, backtracking on the "-"); 0: none.
MatchMonth(s, p) ==
    IF At(s, p) = "1" /\ At(s, p + 1) \in {"0", "1", "2"} /\ At(s, p + 2) = "-"
      THEN 2
    ELSE IF At(s, p) = "0" /\ At(s, p + 1) \in NonZeroDigits /\ At(s, p + 2) = "-"
      THEN 2
    ELSE IF At(s, p) \in NonZeroDigits /\ At(s, p + 1) = "-"
      THEN 1
    ELSE 0

\* Length of the %d match at position p: the first alternative that
\* matches (nothing follows %d in the pattern); 0: none.
MatchDay(s, p) ==
    IF At(s, p) = "3" /\ At(s, p + 1) \in {"0", "1"} THEN 2
    ELSE IF At(s, p) \in {"1", "2"} /\ At(s, p + 1) \in DigitChars THEN 2
    ELSE IF At(s, p) = "0" /\ At(s, p + 1) \in NonZeroDigits THEN 2
    ELSE IF At(s, p) \in NonZeroDigits THEN 1
    ELSE IF At(s, p) = " " /\ At(s, p + 1) \in NonZeroDigits THEN 2
    ELSE 0

\* int() of the digits of s from position p, n characters long, skipping a
\* leading blank.
RECURSIVE ToInt(_, _, _)
ToInt(s, p, n) ==
    IF n = 0 THEN 0
    ELSE IF At(s, p + n - 1) = " " THEN 0
    ELSE 10 * ToInt(s, p, n - 1) + DigitVal(At(s, p + n - 1))

IsLeap(y) == (y % 4 = 0 /\ y % 100 # 0) \/ y % 400 = 0

DaysInMonth(y, m) ==
    IF m = 2 THEN (IF IsLeap(y) THEN 29 ELSE 28)
    ELSE IF m \in {4, 6, 9, 11} THEN 30
    ELSE 31

\* <<year, month, day>>, or <<>> where strptime raises ValueError.
strptime(s) ==
    IF ~ (\A i \in 1..4 : At(s, i) \in DigitChars) \/ At(s, 5) # "-" THEN <<>>
    ELSE
      LET ml == MatchMonth(s, 6) IN
      IF ml = 0 THEN <<>>
      ELSE
        LET dp == 6 + ml + 1
            dl == MatchDay(s, dp) IN
        IF dl = 0 \/ dp + dl # Len(s) + 1 THEN <<>>
        ELSE
          LET y == ToInt(s, 1, 4)
              m == ToInt(s, 6, ml)
              d == ToInt(s, dp, dl) IN
          IF y < 1 \/ d > DaysInMonth(y, m) THEN <<>> ELSE <<y, m, d>>

----------------------------------------------------------------------------
(* Optional[str] arguments: None, or Some(value).                          *)

None == <<>>

Some(x) == <<x>>

\* Python truthiness of an Optional[str]: None and the empty string are
\* falsy.  A category is a string, a date a sequence of characters.
TruthyStr(opt) == opt # None /\ opt[1] # ""

TruthyText(opt) == opt # None /\ opt[1] # <<>>

----------------------------------------------------------------------------
(* The amount column is REAL: IEEE-754 binary floating point, whose sums   *)
(* are rounded to the nearest representable value, ties to even.  Amounts  *)
(* are non-negative integers here and the significand has MantBits bits    *)
(* (binary64 has 53) so that rounding is within reach of small numbers.    *)

MantBits == 3

RECURSIVE Ulp(_)
Ulp(x) == IF x < 2 ^ MantBits THEN 1 ELSE 2 * Ulp(x \div 2)

FRound(x) ==
    LET u == Ulp(x)
        q == x \div u
        r == x % u IN
    IF 2 * r < u THEN q * u
    ELSE IF 2 * r > u THEN (q + 1) * u
    ELSE IF q % 2 = 0 THEN q * u ELSE (q + 1) * u

\* Floating-point addition.
FAdd(a, b) == FRound(a + b)

----------------------------------------------------------------------------
(* The table and the rowid the store gives an inserted row.                *)

Max(a, b) == IF a >= b THEN a ELSE b

Min(a, b) == IF a <= b THEN a ELSE b

Ids(rs) == {rs[i].id : i \in 1..Len(rs)}

\* The largest rowid in the table, 0 in an empty one.
MaxRowid(rs) ==
    IF rs = <<>> THEN 0 ELSE CHOOSE m \in Ids(rs) : \A i \in Ids(rs) : m >= i

\* The rowid of a table declared without AUTOINCREMENT: one more than the
\* largest rowid the table holds now.
NextRowid_NoAutoincrement(rs, sq) == MaxRowid(rs) + 1

\* INTEGER PRIMARY KEY AUTOINCREMENT: one more than the largest rowid the
\* table has ever held.
NextRowid(rs, sq) == Max(sq, MaxRowid(rs)) + 1

\* The faults of the storage layer a call can meet, by the step that fails.
WriteFaults == {"none", "connect", "execute", "commit"}

ReadFaults == {"none", "connect", "execute", "fetch"}

FaultMessage(fault) ==
    CASE fault = "connect" -> <<"unable to open database file">>
      [] fault = "execute" -> <<"disk I/O error">>
      [] fault = "commit" -> <<"database is locked">>
      [] fault = "fetch" -> <<"database disk image is malformed">>

Raised(fault) == [status |-> "raised", message |-> FaultMessage(fault)]

Error(msg) == [status |-> "error", message |-> msg]

----------------------------------------------------------------------------
(* add_expense.  Each tool is an operator from the store and the arguments *)
(* to the store after the call and the value returned.                     *)

\* A comparison that lets a zero amount through.
AmountOK_NonNegative(amount) == amount >= 0

AmountOK(amount) == amount > 0

add_expense(rs, sq, date, amount, category, fault) ==
    IF strptime(date) = <<>>
      THEN [rows |-> rs, seq |-> sq,
            result |-> Error(<<"Date must be in YYYY-MM-DD format">>)]
    ELSE IF ~ AmountOK(amount)
      THEN [rows |-> rs, seq |-> sq,
            result |-> Error(<<"Amount must be positive">>)]
    ELSE IF fault = "connect"
      THEN [rows |-> rs, seq |-> sq, result |-> Raised(fault)]
    ELSE IF fault \in {"execute", "commit"}
      \* the open transaction is rolled back when the connection closes
      THEN [rows |-> rs, seq |-> sq, result |-> Error(FaultMessage(fault))]
    ELSE
      LET id == NextRowid(rs, sq) IN
      [rows |-> Append(rs, [id |-> id, date |-> date, amount |-> amount,
                            category |-> category]),
       seq |-> id,
       result |-> [status |-> "ok", id |-> id]]

----------------------------------------------------------------------------
(* delete_expense.                                                         *)

\* DELETE ... WHERE id <= ?
DeleteWhere_UpTo(rs, expense_id) == SelectSeq(rs, LAMBDA r : r.id > expense_id)

DeleteWhere(rs, expense_id) == SelectSeq(rs, LAMBDA r : r.id # expense_id)

delete_expense(rs, sq, expense_id, fault) ==
    IF fault = "connect"
      THEN [rows |-> rs, seq |-> sq, result |-> Raised(fault)]
    ELSE IF fault \in {"execute", "commit"}
      THEN [rows |-> rs, seq |-> sq, result |-> Error(FaultMessage(fault))]
    ELSE
      LET kept == DeleteWhere(rs, expense_id)
          rowcount == Len(rs) - Len(kept) IN
      [rows |-> kept, seq |-> sq,
       result |-> IF rowcount = 0
                    THEN Error(<<"No expense found with ID", expense_id>>)
                    ELSE [status |-> "ok",
                          message |-> <<"Deleted expense", expense_id>>]]

----------------------------------------------------------------------------
(* The statements of the read tools: the WHERE clauses appended after      *)
(* "WHERE 1=1", each with one ? placeholder, and the parameters bound to   *)
(* the placeholders by position.                                           *)

ClauseHolds(r, clause, param) ==
    CASE clause = "category = ?" -> r.category = param
      [] clause = "date >= ?" -> TextLeq(param, r.date)
      [] clause = "date <= ?" -> TextLeq(r.date, param)

WhereHolds(r, where, params) ==
    \A i \in 1..Len(where) : ClauseHolds(r, where[i], params[i])

Where(rs, where, params) == SelectSeq(rs, LAMBDA r : WhereHolds(r, where, params))

\* ORDER BY date DESC.  SQL leaves the order of rows with equal dates open:
\* tie says whether they come out in rowid order or against it.
TieOrders == {"rowid_asc", "rowid_desc"}

\* ORDER BY date ASC.
ComesBefore_Ascending(a, b, tie) ==
    IF a.date = b.date
      THEN (IF tie = "rowid_asc" THEN a.id < b.id ELSE a.id > b.id)
      ELSE TextLeq(a.date, b.date)

\* Whether row a comes out before row b: a later date first, and rows of
\* one date by rowid, in the order tie says.
ComesBefore(a, b, tie) ==
    IF a.date = b.date
      THEN (IF tie = "rowid_asc" THEN a.id < b.id ELSE a.id > b.id)
      ELSE TextLeq(b.date, a.date)

OrderByDateDesc(rs, tie) ==
    LET n == Len(rs)
        rank == [i \in 1..n |->
                   1 + Cardinality({j \in 1..n : ComesBefore(rs[j], rs[i], tie)})] IN
    [k \in 1..n |-> rs[CHOOSE i \in 1..n : rank[i] = k]]

\* A statement without its LIMIT.
Limit_Ignored(rs, n) == rs

\* LIMIT n: a negative n is no limit.
Limit(rs, n) == IF n < 0 THEN rs ELSE SubSeq(rs, 1, Min(n, Len(rs)))

----------------------------------------------------------------------------
(* get_expenses.                                                           *)

DefaultLimit == 50

GetCategoryClause(q, category) ==
    IF TruthyStr(category)
      THEN [where |-> Append(q.where, "category = ?"),
            params |-> Append(q.params, category[1])]
      ELSE q

StartClause(q, start_date) ==
    IF TruthyText(start_date)
      THEN [where |-> Append(q.where, "date >= ?"),
            params |-> Append(q.params, start_date[1])]
      ELSE q

\* The end_date clause left out.
EndClause_Dropped(q, end_date) == q

EndClause(q, end_date) ==
    IF TruthyText(end_date)
      THEN [where |-> Append(q.where, "date <= ?"),
            params |-> Append(q.params, end_date[1])]
      ELSE q

\* The statement and the parameters get_expenses executes; the last
\* parameter is bound to LIMIT ?.
GetQuery(category, start_date, end_date, limit) ==
    LET q == EndClause(StartClause(GetCategoryClause(
                 [where |-> <<>>, params |-> <<>>], category), start_date), end_date) IN
    [where |-> q.where, params |-> Append(q.params, limit)]

get_expenses(rs, category, start_date, end_date, limit, tie, fault) ==
    IF fault = "connect" THEN Raised(fault)
    ELSE IF fault \in {"execute", "fetch"} THEN Error(FaultMessage(fault))
    ELSE
      LET q == GetQuery(category, start_date, end_date, limit) IN
      IF Len(q.params) # Len(q.where) + 1
        THEN Error(<<"Incorrect number of bindings supplied">>)
      ELSE
        LET expenses == Limit(OrderByDateDesc(Where(rs, q.where, q.params), tie),
                              q.params[Len(q.params)]) IN
        [status |-> "ok", expenses |-> expenses, count |-> Len(expenses)]

----------------------------------------------------------------------------
(* get_expense_summary: a grouped SELECT, then an ungrouped one.           *)

\* SUM(amount) over rows in table order; SUM of no row is NULL, which the
\* tool turns into 0.
RECURSIVE SumAmount(_)
SumAmount(rs) ==
    IF rs = <<>> THEN 0
    ELSE FAdd(SumAmount(SubSeq(rs, 1, Len(rs) - 1)), rs[Len(rs)].amount)

\* The categories of rs, each once, in the order they first appear.
RECURSIVE DistinctCategories(_)
DistinctCategories(rs) ==
    IF rs = <<>> THEN <<>>
    ELSE
      LET front == DistinctCategories(SubSeq(rs, 1, Len(rs) - 1))
          c == rs[Len(rs)].category IN
      IF \E i \in 1..Len(front) : front[i] = c THEN front ELSE Append(front, c)

GroupRow(rs, c) ==
    LET members == SelectSeq(rs, LAMBDA r : r.category = c) IN
    [category |-> c, total |-> SumAmount(members), count |-> Len(members)]

RECURSIVE InsertByTotalDesc(_, _)
InsertByTotalDesc(g, s) ==
    IF s = <<>> THEN <<g>>
    ELSE IF g.total > Head(s).total THEN <<g>> \o s
    ELSE <<Head(s)>> \o InsertByTotalDesc(g, Tail(s))

RECURSIVE OrderByTotalDesc(_)
OrderByTotalDesc(gs) ==
    IF gs = <<>> THEN <<>>
    ELSE InsertByTotalDesc(gs[Len(gs)], OrderByTotalDesc(SubSeq(gs, 1, Len(gs) - 1)))

\* The grouped statement's clauses and parameters.
SummaryQuery(start_date, end_date) ==
    EndClause(StartClause([where |-> <<>>, params |-> <<>>], start_date), end_date)

\* total_query's clauses, and the parameters it is executed with:
\* params[:len([p for p in [start_date, end_date] if p])].
TotalQuery(start_date, end_date, params) ==
    LET w1 == IF TruthyText(start_date) THEN <<"date >= ?">> ELSE <<>>
        w2 == IF TruthyText(end_date) THEN w1 \o <<"date <= ?">> ELSE w1
        n == Cardinality({i \in 1..2 : TruthyText(<<start_date, end_date>>[i])}) IN
    [where |-> w2, params |-> SubSeq(params, 1, Min(n, Len(params)))]

\* The first SELECT: one row per category, ORDER BY total DESC.
GroupedSelect(rs, start_date, end_date) ==
    LET q == SummaryQuery(start_date, end_date)
        matching == Where(rs, q.where, q.params)
        cs == DistinctCategories(matching) IN
    OrderByTotalDesc([i \in 1..Len(cs) |-> GroupRow(matching, cs[i])])

\* The second SELECT and the value returned, given the first one's rows.
TotalSelect(rs, start_date, end_date, cats) ==
    LET q == TotalQuery(start_date, end_date, SummaryQuery(start_date, end_date).params) IN
    IF Len(q.params) # Len(q.where)
      THEN Error(<<"Incorrect number of bindings supplied">>)
    ELSE
      LET matching == Where(rs, q.where, q.params) IN
      [status |-> "ok", total |-> SumAmount(matching), count |-> Len(matching),
       by_category |-> cats]

get_expense_summary(rs, start_date, end_date, fault) ==
    IF fault = "connect" THEN Raised(fault)
    ELSE IF fault \in {"execute", "fetch"} THEN Error(FaultMessage(fault))
    ELSE TotalSelect(rs, start_date, end_date, GroupedSelect(rs, start_date, end_date))

----------------------------------------------------------------------------
(* Inputs.                                                                 *)

D_2024_01_15 == <<"2", "0", "2", "4", "-", "0", "1", "-", "1", "5">>

D_2024_02_29 == <<"2", "0", "2", "4", "-", "0", "2", "-", "2", "9">>

\* 2023 is no leap year
D_2023_02_29 == <<"2", "0", "2", "3", "-", "0", "2", "-", "2", "9">>

\* "2024-1-5"
D_2024_1_5 == <<"2", "0", "2", "4", "-", "1", "-", "5">>

\* "2024-01- 5"
D_2024_01_b5 == <<"2", "0", "2", "4", "-", "0", "1", "-", " ", "5">>

D_2024_13_01 == <<"2", "0", "2", "4", "-", "1", "3", "-", "0", "1">>

\* "2024/01/01"
D_slashes == <<"2", "0", "2", "4", "/", "0", "1", "/", "0", "1">>

\* "2024-01-15 "
D_trailing == <<"2", "0", "2", "4", "-", "0", "1", "-", "1", "5", " ">>

D_0000_01_01 == <<"0", "0", "0", "0", "-", "0", "1", "-", "0", "1">>

DateInputs ==
    {D_2024_01_15, D_2024_02_29, D_2023_02_29, D_2024_1_5, D_2024_01_b5,
     D_2024_13_01, D_slashes, D_trailing, D_0000_01_01, <<>>}

AmountInputs == {-1, 0, 1}

CategoryInputs == {"Food", "Rent"}

\* Bounds of the specification Spec: rows in the table, ids given.
MaxRows == 2

MaxSeq == 3

----------------------------------------------------------------------------
(* The state after init_db on a new database file, and one action per tool. *)

Init ==
    /\ rows = <<>>
    /\ seq = 0
    /\ call = [op |-> "init_db"]
    /\ result = [status |-> "none"]
    /\ issued = {}
    /\ deleted = {}
    /\ inflight = <<>>

\* History kept with a get_expense_summary that has run its first SELECT:
\* whether another call has committed a change since.
NoteCommit(fl, changed) ==
    IF fl # <<>> /\ changed THEN <<[fl[1] EXCEPT !.commits = 1]>> ELSE fl

AddExpense(dates, amounts, cats, faults, maxRows, maxSeq) ==
    /\ Len(rows) < maxRows
    /\ seq < maxSeq
    /\ \E date \in dates, amount \in amounts, category \in cats, fault \in faults :
         LET out == add_expense(rows, seq, date, amount, category, fault) IN
         /\ rows' = out.rows
         /\ seq' = out.seq
         /\ call' = [op |-> "add_expense", date |-> date, amount |-> amount,
                     category |-> category, fault |-> fault]
         /\ result' = out.result
         /\ issued' = IF out.result.status = "ok"
                        THEN issued \cup {out.result.id} ELSE issued
         /\ inflight' = NoteCommit(inflight, out.rows # rows)
    /\ UNCHANGED deleted

DeleteExpense(ids, faults) ==
    /\ \E expense_id \in ids, fault \in faults :
         LET out == delete_expense(rows, seq, expense_id, fault) IN
         /\ rows' = out.rows
         /\ seq' = out.seq
         /\ call' = [op |-> "delete_expense", expense_id |-> expense_id,
                     fault |-> fault]
         /\ result' = out.result
         /\ deleted' = IF out.result.status = "ok"
                         THEN deleted \cup {expense_id} ELSE deleted
         /\ inflight' = NoteCommit(inflight, out.rows # rows)
    /\ UNCHANGED issued

Next ==
    \/ AddExpense(DateInputs, AmountInputs, {"Food"}, {"none"}, MaxRows, MaxSeq)
    \/ DeleteExpense(0..MaxSeq, {"none"})

Spec == Init /\ [][Next]_vars

----------------------------------------------------------------------------
(* The read tools, and the specification SpecQuery: a table filled by      *)
(* add_expense and read by get_expenses with every combination of absent,  *)
(* empty and non-empty filters.                                            *)

\* A read leaves the table as it is: what a read returns after another read
\* it also returns after the write (or the start) before them.  Reads are
\* therefore taken from the states a write or the start has left, which
\* reaches the same tables, calls and results.
NoReadBefore == call.op \notin {"get_expenses", "get_expense_summary"}

GetExpenses(cats, starts, ends, limits, faults) ==
    /\ NoReadBefore
    /\ \E category \in cats, start_date \in starts, end_date \in ends,
          limit \in limits, tie \in TieOrders, fault \in faults :
         /\ call' = [op |-> "get_expenses", category |-> category,
                     start_date |-> start_date, end_date |-> end_date,
                     limit |-> limit, tie |-> tie, fault |-> fault]
         /\ result' = get_expenses(rows, category, start_date, end_date, limit,
                                   tie, fault)
    /\ UNCHANGED <<rows, seq, issued, deleted, inflight>>

GetExpenseSummary(starts, ends, faults) ==
    /\ NoReadBefore
    /\ \E start_date \in starts, end_date \in ends, fault \in faults :
         /\ call' = [op |-> "get_expense_summary", start_date |-> start_date,
                     end_date |-> end_date, fault |-> fault, commits |-> 0]
         /\ result' = get_expense_summary(rows, start_date, end_date, fault)
    /\ UNCHANGED <<rows, seq, issued, deleted, inflight>>

QueryDates == {D_2024_01_15, D_2024_02_29, D_2024_1_5}

CategoryFilters == {None, Some(""), Some("Food"), Some("Rent")}

DateFilters == {None, Some(<<>>), Some(D_2024_01_15), Some(D_2024_02_29)}

LimitInputs == {-1, 0, 1, 2, DefaultLimit}

\* Bound of SpecQuery: rows in the table.
QueryRows == 2

NextQuery ==
    \/ AddExpense(QueryDates, {1}, CategoryInputs, {"none"}, QueryRows, QueryRows)
    \/ GetExpenses(CategoryFilters, DateFilters, DateFilters, LimitInputs, {"none"})

SpecQuery == Init /\ [][NextQuery]_vars

----------------------------------------------------------------------------
(* SpecSum: get_expense_summary over tables whose amounts need rounding    *)
(* when added.                                                             *)

SumDates == {D_2024_01_15, D_2024_02_29}

SumAmounts == {1, 4, 5}

\* Bound of SpecSum: rows in the table.
SumRows == 3

NextSum ==
    \/ AddExpense(SumDates, SumAmounts, CategoryInputs, {"none"}, SumRows, SumRows)
    \/ GetExpenseSummary(DateFilters, DateFilters, {"none"})

SpecSum == Init /\ [][NextSum]_vars

----------------------------------------------------------------------------
(* SpecLimit: a database file that already holds about DefaultLimit        *)
(* records when the server starts (init_db creates the table only if it    *)
(* does not exist), then add_expense and get_expenses with the default     *)
(* limit.                                                                  *)

Prefilled(n, date) ==
    [i \in 1..n |-> [id |-> i, date |-> date, amount |-> 1, category |-> "Food"]]

PrefillSizes == {DefaultLimit - 1, DefaultLimit}

\* Bound of SpecLimit: records added to the records already there.
LimitExtra == 1

InitLimit ==
    /\ \E n \in PrefillSizes, date \in SumDates :
         /\ rows = Prefilled(n, date)
         /\ seq = n
         /\ issued = 1..n
    /\ call = [op |-> "init_db"]
    /\ result = [status |-> "none"]
    /\ deleted = {}
    /\ inflight = <<>>

NextLimit ==
    \/ AddExpense(SumDates, {1}, {"Food", ""}, {"none"},
                  DefaultLimit + LimitExtra, DefaultLimit + LimitExtra)
    \/ GetExpenses({Some("Food"), Some("")}, {None}, {None}, {DefaultLimit}, {"none"})

SpecLimit == InitLimit /\ [][NextLimit]_vars

----------------------------------------------------------------------------
(* SpecConc: several callers (server processes on the same database file). *)
(* sqlite3 opens a transaction only before INSERT and DELETE, so each of   *)
(* the two SELECTs of get_expense_summary reads the table as committed at  *)
(* the time it runs, and another caller's add_expense or delete_expense    *)
(* can commit between them.                                                *)

SummaryFirst(starts, ends) ==
    /\ inflight = <<>>
    /\ \E start_date \in starts, end_date \in ends :
         inflight' = <<[start_date |-> start_date, end_date |-> end_date,
                        categories |-> GroupedSelect(rows, start_date, end_date),
                        commits |-> 0]>>
    /\ UNCHANGED <<rows, seq, call, result, issued, deleted>>

SummarySecond ==
    /\ inflight # <<>>
    /\ call' = [op |-> "get_expense_summary", start_date |-> inflight[1].start_date,
                end_date |-> inflight[1].end_date, fault |-> "none",
                commits |-> inflight[1].commits]
    /\ result' = TotalSelect(rows, inflight[1].start_date, inflight[1].end_date,
                             inflight[1].categories)
    /\ inflight' = <<>>
    /\ UNCHANGED <<rows, seq, issued, deleted>>

\* Bounds of SpecConc: rows in the table, ids given.
ConcRows == 2

ConcSeq == 3

NextConc ==
    \/ AddExpense(SumDates, {1, 2}, CategoryInputs, {"none"}, ConcRows, ConcSeq)
    \/ DeleteExpense(1..ConcSeq, {"none"})
    \/ SummaryFirst({None, Some(D_2024_02_29)}, {None, Some(D_2024_01_15)})
    \/ SummarySecond

SpecConc == Init /\ [][NextConc]_vars

----------------------------------------------------------------------------
(* SpecFail: the four tools with the storage layer failing at any step.    *)

\* Bound of SpecFail: rows in the table.
FailRows == 2

NextFail ==
    \/ AddExpense({D_2024_01_15, D_2024_13_01}, {0, 1}, {"Food"}, WriteFaults,
                  FailRows, FailRows)
    \/ DeleteExpense(0..FailRows, WriteFaults)
    \/ GetExpenses({None, Some("Food")}, {None}, {None, Some(D_2024_01_15)},
                   {DefaultLimit}, ReadFaults)
    \/ GetExpenseSummary({None}, {None, Some(D_2024_01_15)}, ReadFaults)

SpecFail == Init /\ [][NextFail]_vars

----------------------------------------------------------------------------
(* Properties of add_expense and delete_expense, checked under Spec.       *)

\* C1: an add_expense call whose amount is <= 0 or whose date fails the
\* validation returns status "error" and leaves the table and the id
\* sequence as they were.
C1_InvalidAddChangesNothing ==
    [][(call'.op = "add_expense"
          /\ (call'.amount <= 0 \/ strptime(call'.date) = <<>>))
        => (result'.status = "error" /\ rows' = rows /\ seq' = seq
              /\ issued' = issued)]_vars

C1_Witness ==
    /\ call.op = "add_expense"
    /\ call.amount <= 0
    /\ strptime(call.date) # <<>>
    /\ result.status = "error"
    /\ rows # <<>>

\* C2: the id a successful add_expense returns is greater than every id
\* returned before and than every id a record has ever had, deleted
\* records included.
C2_IdsNeverReused ==
    [][(call'.op = "add_expense" /\ result'.status = "ok")
        => (/\ \A i \in issued \cup deleted \cup Ids(rows) : result'.id > i
            /\ result'.id \in Ids(rows'))]_vars

C2_Witness ==
    /\ call.op = "add_expense"
    /\ result.status = "ok"
    /\ deleted # {}
    /\ \E i \in deleted : i = result.id - 1

\* C5: delete_expense on a persisted id returns "ok" and removes that
\* record and no other; delete_expense on an id deleted before (or never
\* present) returns the not-found error and changes nothing, every time.
C5_DeleteOnceThenNotFound ==
    [][call'.op = "delete_expense" =>
         /\ IF call'.expense_id \in Ids(rows)
              THEN /\ result'.status = "ok"
                   /\ Len(rows') = Len(rows) - 1
                   /\ Ids(rows') = Ids(rows) \ {call'.expense_id}
                   /\ \A i \in 1..Len(rows) :
                        rows[i].id # call'.expense_id
                          => \E j \in 1..Len(rows') : rows'[j] = rows[i]
              ELSE /\ result' = Error(<<"No expense found with ID", call'.expense_id>>)
                   /\ rows' = rows
                   /\ seq' = seq
         /\ call'.expense_id \in deleted
              => (result'.status = "error" /\ rows' = rows)]_vars

C5_Witness ==
    /\ call.op = "delete_expense"
    /\ call.expense_id \in deleted
    /\ result.status = "error"
    /\ rows # <<>>

\* The shape YYYY-MM-DD: four digits, two digits 01-12, two digits that are
\* a day of that month, separated by "-", and nothing else.
WellFormedDate(s) ==
    /\ Len(s) = 10
    /\ \A i \in {1, 2, 3, 4, 6, 7, 9, 10} : s[i] \in DigitChars
    /\ s[5] = "-"
    /\ s[8] = "-"
    /\ ToInt(s, 6, 2) \in 1..12
    /\ ToInt(s, 9, 2) \in 1..DaysInMonth(ToInt(s, 1, 4), ToInt(s, 6, 2))

\* C9: the date of every persisted record is well-formed YYYY-MM-DD text.
C9_PersistedDatesWellFormed ==
    \A i \in 1..Len(rows) : WellFormedDate(rows[i].date)

----------------------------------------------------------------------------
(* Properties of get_expenses, checked under SpecQuery.                    *)

IsGetOk == call.op = "get_expenses" /\ result.status = "ok"

\* Whether the expenses come in non-increasing date order.
DateDescending(es) ==
    \A i \in 1..Len(es) - 1 : TextLeq(es[i + 1].date, es[i].date)

\* Whether row r passes the filters of the call that are not None and not
\* empty.
PassesNonEmptyFilters(r) ==
    /\ TruthyStr(call.category) => r.category = call.category[1]
    /\ TruthyText(call.start_date) => TextLeq(call.start_date[1], r.date)
    /\ TruthyText(call.end_date) => TextLeq(r.date, call.end_date[1])

\* Whether row r passes every filter the call supplies (every one that is
\* not None).
PassesSuppliedFilters(r) ==
    /\ call.category # None => r.category = call.category[1]
    /\ call.start_date # None => TextLeq(call.start_date[1], r.date)
    /\ call.end_date # None => TextLeq(r.date, call.end_date[1])

\* C6 as stated: get_expenses returns only records that satisfy every
\* supplied filter, in non-increasing date order.
C6_EverySuppliedFilterApplied ==
    IsGetOk =>
      /\ \A i \in 1..Len(result.expenses) : PassesSuppliedFilters(result.expenses[i])
      /\ DateDescending(result.expenses)

\* C6 amended: get_expenses returns only stored records that satisfy every
\* filter supplied with a non-empty value (an empty string counts as no
\* filter), in non-increasing date order.
C6_EveryNonEmptyFilterApplied ==
    IsGetOk =>
      /\ \A i \in 1..Len(result.expenses) :
           /\ PassesNonEmptyFilters(result.expenses[i])
           /\ \E j \in 1..Len(rows) : rows[j] = result.expenses[i]
      /\ DateDescending(result.expenses)

C6_Witness ==
    /\ IsGetOk
    /\ TruthyStr(call.category)
    /\ TruthyText(call.start_date)
    /\ TruthyText(call.end_date)
    /\ result.count >= 1
    /\ result.count < Len(rows)
    /\ call.limit = DefaultLimit

\* The number of stored rows passing the call's non-empty filters.
MatchingCount == Cardinality({j \in 1..Len(rows) : PassesNonEmptyFilters(rows[j])})

\* C7 as stated: for every integer limit, the number of expenses returned
\* and the count field never exceed limit.
C7_CountNeverExceedsLimit ==
    IsGetOk => (Len(result.expenses) <= call.limit /\ result.count <= call.limit)

\* C7 amended: count is the number of expenses returned; for a limit >= 0
\* it never exceeds limit, and for a negative limit no cap applies: every
\* matching record is returned.
C7_CountCappedByNonNegativeLimit ==
    IsGetOk =>
      /\ result.count = Len(result.expenses)
      /\ call.limit >= 0 => result.count = Min(call.limit, MatchingCount)
      /\ call.limit < 0 => result.count = MatchingCount

C7_Witness ==
    /\ IsGetOk
    /\ call.limit = 1
    /\ result.count = 1
    /\ MatchingCount = 2

----------------------------------------------------------------------------
(* The round trip add_expense, get_expenses, checked under SpecLimit.      *)

\* Whether the step is a successful add_expense(d, a, c) directly followed
\* by get_expenses(category=c) with the other arguments at their defaults.
AddThenGet ==
    /\ call.op = "add_expense"
    /\ result.status = "ok"
    /\ call'.op = "get_expenses"
    /\ call'.category = Some(call.category)
    /\ call'.start_date = None
    /\ call'.end_date = None
    /\ call'.limit = DefaultLimit
    /\ result'.status = "ok"

\* Whether the expenses returned hold a record with the date, amount and
\* category of the add_expense call.
IncludesAdded ==
    \E i \in 1..Len(result'.expenses) :
      /\ result'.expenses[i].date = call.date
      /\ result'.expenses[i].amount = call.amount
      /\ result'.expenses[i].category = call.category

\* The stored records get_expenses(category=c) selects (all of them for an
\* empty c) whose date is not before d.
AtOrAfter(c, d) ==
    {i \in 1..Len(rows) :
       /\ c # "" => rows[i].category = c
       /\ TextLeq(d, rows[i].date)}

\* C4 as stated: in any state of the table, the expenses get_expenses
\* returns right after a successful add_expense include the added record.
C4_RoundTripAlways == [][AddThenGet => IncludesAdded]_vars

\* C4 amended: they include it provided at most DefaultLimit of the
\* selected records, the new one counted, have a date not before its date.
C4_RoundTripWithinLimit ==
    [][(AddThenGet /\ Cardinality(AtOrAfter(call.category, call.date)) <= DefaultLimit)
         => IncludesAdded]_vars

C4_Witness ==
    /\ IsGetOk
    /\ call.category = Some("Food")
    /\ call.limit = DefaultLimit
    /\ Len(rows) > DefaultLimit
    /\ result.count = DefaultLimit
    /\ rows[Len(rows)].category = "Food"
    /\ \E i \in 1..result.count : result.expenses[i] = rows[Len(rows)]
    /\ \E i \in 1..result.count : result.expenses[i].date # rows[Len(rows)].date

----------------------------------------------------------------------------
(* Properties of get_expense_summary, checked under SpecSum and SpecConc.  *)

IsSummaryOk == call.op = "get_expense_summary" /\ result.status = "ok"

\* sum(...) of the totals of the breakdown, added in list order as the
\* caller adds them.
RECURSIVE SumTotals(_)
SumTotals(cats) ==
    IF cats = <<>> THEN 0
    ELSE FAdd(SumTotals(SubSeq(cats, 1, Len(cats) - 1)), cats[Len(cats)].total)

RECURSIVE SumCounts(_)
SumCounts(cats) ==
    IF cats = <<>> THEN 0
    ELSE SumCounts(SubSeq(cats, 1, Len(cats) - 1)) + cats[Len(cats)].count

BreakdownAddsUp(r) ==
    /\ SumTotals(r.by_category) = r.total
    /\ SumCounts(r.by_category) = r.count

\* C3: for any table and any start_date and end_date, the totals of
\* by_category add up to total and the counts to count.
C3_BreakdownAddsUpToTotal == IsSummaryOk => BreakdownAddsUp(result)

\* C10: when another call commits between the two SELECTs of a
\* get_expense_summary, the totals and counts it returns still add up.
C10_AddsUpAcrossCommits ==
    (IsSummaryOk /\ call.commits > 0) => BreakdownAddsUp(result)

----------------------------------------------------------------------------
(* Store failures, checked under SpecFail.                                 *)

\* C8: in each tool, a failure of the store at any step, opening the
\* connection included, comes back as a result with status "error"; none
\* leaves the tool as an exception.
C8_StoreFailuresReturnError ==
    (call.op # "init_db" /\ call.fault # "none") => result.status = "error"

====
